---------------------------- MODULE Spec2Model ----------------------------
(***************************************************************************)
(* ThermSDO.py: a CAN node that answers CANopen SDO upload requests with   *)
(* the temperature read from a DS1621 thermometer on the I2C bus.          *)
(*                                                                         *)
(* The state is the module-level configuration (theNode, theIndx,          *)
(* ds1621Addr, i2cBus), the thermometer's registers, and what the most     *)
(* recent run of callback(msg) did: the frame it was given, the Message    *)
(* object as it left it, the frames it passed to canBus.send, the number   *)
(* of getDataPoint() calls, and the exception it ended in, if any.  Where   *)
(* the order of frames matters (SpecBus) the state also holds the frames   *)
(* waiting in the socket and the log of the frames put on the bus.         *)
(*                                                                         *)
(* Python sequences are 0-based and TLA+ sequences 1-based: data byte k of *)
(* the source is data[k + 1] here.  Real numbers are exact fractions       *)
(* <<numerator, denominator>> with a positive denominator.                 *)
(***************************************************************************)
EXTENDS Integers, Sequences, FiniteSets

(***************************************************************************)
(* Bounds of the model.                                                    *)
(***************************************************************************)
\* Frames delivered to the callback in one run of the program.
MaxFrames == 2
\* Frames that arrive on the bus in one run, where arrival and delivery are
\* told apart.
MaxArrivals == 3

(***************************************************************************)
(* Program constants.                                                      *)
(***************************************************************************)
DefaultAddr   == 72          \* ds1621Addr = 0x48
DefaultNode   == 43          \* theNode = 43
DefaultIndx   == 24576       \* theIndx = 0x6000
SdoRxChannel  == 6           \* 0x06 == hiByte
SdoUpload     == 64          \* 0x40 != command
CmdAbort      == 128         \* msg.data[0] = 0x80
CmdOneByte    == 79          \* msg.data[0] = 0x4f
CmdFourBytes  == 67          \* msg.data[0] = 0x43
NumSubIndices == 2           \* msg.data[4] = 0x02
QMapIndx      == 4096        \* 0x1000 == index
AbortReadOnly == 100728834   \* 0x06010002
AbortNoSubIdx == 101253137   \* 0x06090011
AbortNoObject == 100794368   \* 0x06020000
SdoTxBase     == 1408        \* 0x580 + theNode

(***************************************************************************)
(* Input domains: what the command line, the CAN bus and the thermometer   *)
(* can hand to the program.                                                *)
(***************************************************************************)
\* -node values: the default and one with the top bit set.
Nodes == {DefaultNode, 171}
\* -indx values: the default and the index of the QMap special case.
Indexes == {DefaultIndx, QMapIndx}
\* -addr values.
Addrs == {DefaultAddr}
\* i2cBus after the try block: an SMBus object, or None in simulation mode.
I2cStates == {"SMBus", "None"}

\* DS1621 register contents <<temperature word, count, slope>>:
\* 25.5 C, -40 C (= -40 F), -9.5625 C, and a slope register reading zero.
Ds1621Regs == {<<25, 4, 16>>, <<216, 12, 16>>, <<33014, 5, 16>>, <<25, 4, 0>>}
\* No thermometer answers on the I2C bus.
NoRegs == <<0, 0, 0>>

\* Arbitration IDs of SDO requests to nodes 43 and 171: 0x62b, 0x6ab.
SdoIds == {1579, 1707}
\* Other traffic: 0x5ab (the reply ID of node 43) and 0x72b.
OtherIds == {1451, 1835}
\* Command bytes: upload (0x40) and expedited download (0x23).
Commands == {SdoUpload, 35}
\* Object indexes: 0x6000, 0x1000 and 0x0060 (0x6000 byte-swapped).
ReqIndexes == {DefaultIndx, QMapIndx, 96}
SubIndexes == {0, 1, 2, 3}
\* Data bytes 4..7 of a request: the reserved zeros, or anything else.
ZeroTail == <<0, 0, 0, 0>>
Tails == {ZeroTail, <<170, 187, 204, 221>>}
\* Data lengths of the frames that carry fewer than 8 bytes.
ShortLengths == {3, 4, 5}

\* struct.pack('<H', index) as the two data bytes of a request
IndexBytes(index) == <<index % 256, (index \div 256) % 256>>

FullData(c, i, s, t) == <<c>> \o IndexBytes(i) \o <<s>> \o t

\* Every frame the bus can deliver, as the can.Message handed to the callback:
\* 8-byte SDO requests, the same cut short, and other traffic that carries
\* what would be valid requests.
Frames ==
    { [arbitration_id |-> id, data |-> FullData(c, i, s, t)] :
        id \in SdoIds, c \in Commands, i \in ReqIndexes, s \in SubIndexes,
        t \in Tails }
    \cup
    { [arbitration_id |-> id, data |-> SubSeq(FullData(c, i, s, ZeroTail), 1, n)] :
        id \in SdoIds, c \in Commands, i \in ReqIndexes, s \in SubIndexes,
        n \in ShortLengths }
    \cup
    { [arbitration_id |-> id, data |-> FullData(SdoUpload, i, 1, ZeroTail)] :
        id \in OtherIds, i \in {DefaultIndx, QMapIndx} }

(***************************************************************************)
(* struct and bytearray operations used by the callback.                   *)
(***************************************************************************)
\* struct.pack('<L', v) with the bytes in big-endian order
pack_L_bigendian(v) ==
    << (v \div 16777216) % 256, (v \div 65536) % 256, (v \div 256) % 256, v % 256 >>

\* struct.pack('<L', v): 32-bit unsigned, little-endian
pack_L(v) ==
    << v % 256, (v \div 256) % 256, (v \div 65536) % 256, (v \div 16777216) % 256 >>

\* struct.unpack('<BHB', b): defined when b holds exactly 4 bytes
unpack_BHB(b) ==
    [command |-> b[1], index |-> b[2] + 256 * b[3], subidx |-> b[4]]

\* data[0:4]
Slice04(data) == SubSeq(data, 1, IF Len(data) < 4 THEN Len(data) ELSE 4)

\* data[3:8] = b, the slice assignment starting one byte early
SetSlice38(data, b) == SubSeq(data, 1, 3) \o b \o SubSeq(data, 9, Len(data))

\* data[4:8] = b on a bytearray of at least 4 bytes
SetSlice48(data, b) == SubSeq(data, 1, 4) \o b \o SubSeq(data, 9, Len(data))

\* data[k] = v on a bytearray longer than k
SetItem(data, k, v) == [data EXCEPT ![k + 1] = v]


(***************************************************************************)
(* struct.pack('<f', x): IEEE 754 binary32, round to nearest even, for a   *)
(* fraction x = <<n, d>> in the normal range.                              *)
(***************************************************************************)
Abs(n) == IF n < 0 THEN -n ELSE n

\* The exponent e with 2^e <= a/d < 2^(e+1), for a >= d > 0.
RECURSIVE ExpUp(_, _, _)
ExpUp(a, d, e) == IF 2 * d > a THEN e ELSE ExpUp(a, 2 * d, e + 1)

\* The same for 0 < a < d.
RECURSIVE ExpDown(_, _, _)
ExpDown(a, d, e) == IF a >= d THEN e ELSE ExpDown(2 * a, d, e - 1)

Exponent(a, d) == IF a >= d THEN ExpUp(a, d, 0) ELSE ExpDown(a, d, 0)

\* n more binary digits of the quotient by long division:
\* <<floor((acc + r/d) * 2^n), remainder>>.
RECURSIVE Digits(_, _, _, _)
Digits(acc, r, d, n) ==
    IF n = 0 THEN <<acc, r>>
    ELSE IF 2 * r >= d THEN Digits(2 * acc + 1, 2 * r - d, d, n - 1)
         ELSE Digits(2 * acc, 2 * r, d, n - 1)

pack_f(x) ==
    LET a    == Abs(x[1])
        d    == x[2]
        sign == IF x[1] < 0 THEN 1 ELSE 0
        e    == Exponent(a, d)
        q    == Digits(a \div d, a % d, d, 23 - e)
        up   == 2 * q[2] > d \/ (2 * q[2] = d /\ q[1] % 2 = 1)
        m    == IF up THEN q[1] + 1 ELSE q[1]
        carry == m = 16777216
        frac == IF carry THEN 0 ELSE m - 8388608
        E    == e + 127 + (IF carry THEN 1 ELSE 0)
    IN  IF a = 0 THEN <<0, 0, 0, 0>>
        ELSE << frac % 256,
                (frac \div 256) % 256,
                (frac \div 65536) + (128 * (E % 2)),
                (E \div 2) + (128 * sign) >>

(***************************************************************************)
(* The program's state.                                                    *)
(***************************************************************************)
VARIABLES
    ds1621Addr,   \* DS1621 I2C address
    theNode,      \* CAN node number
    theIndx,      \* CAN SDO index of the temperature object
    i2cBus,       \* "SMBus", or "None" in simulation mode
    regs,         \* the thermometer's registers <<temperature word, count, slope>>
    rx,           \* the frame most recently delivered to callback, as received
    msg,          \* the same Message object as callback left it
    sent,         \* the frames callback passed to canBus.send for that frame
    reads,        \* the getDataPoint() calls made while handling that frame
    point,        \* what the last of those calls returned, or NoPoint
    raised,       \* the exception that ended that callback, or "none"
    nRecv,        \* frames delivered to callback since startup
    rxQueue,      \* frames received by the socket and not yet delivered, each
                  \* with its arrival number: [seq, frame]
    txLog,        \* the frames put on the bus, oldest first, each with the
                  \* request it answers: [seq, req, regs, reply]
    nArrived      \* frames that have arrived on the bus since startup

config == <<ds1621Addr, theNode, theIndx, i2cBus>>
bus == <<rxQueue, txLog, nArrived>>
vars == <<ds1621Addr, theNode, theIndx, i2cBus, regs, rx, msg, sent, reads, point,
          raised, nRecv, rxQueue, txLog, nArrived>>

NoFrame == [arbitration_id |-> -1, data |-> <<>>]
NoPoint == [none |-> TRUE]

(***************************************************************************)
(* getDataPoint().  io is what the I2C transfers do: "ok", or "IOError"    *)
(* when one of them fails.  The result is [exc, value]: the exception      *)
(* raised, or "none" and the value returned.                               *)
(***************************************************************************)
\* loRes: the 9-bit two's-complement reading in half degrees, halved
loResC(therm) ==
    LET w == ((therm * 2) % 512) + ((therm \div 32768) % 2)
    IN  << (IF w > 255 THEN w - 512 ELSE w), 2 >>

\* hiRes = temp - 0.25 + (slope - count) / slope, for slope # 0
hiResC(therm, count, slope) ==
    LET t == therm % 256
        temp == IF t > 127 THEN t - 256 ELSE t
    IN  << 4 * slope * temp - slope + 4 * (slope - count), 4 * slope >>

\* 32.0 + hiRes * 9.0 / 5.0
hiResF(c) == << 160 * c[2] + 9 * c[1], 5 * c[2] >>

getDataPoint(io) ==
    IF i2cBus = "None"
    THEN [exc |-> "none", value |-> [message |-> "Simulation mode enabled."]]
    ELSE IF io = "IOError"
    THEN [exc |-> "IOError", value |-> NoPoint]
    ELSE IF regs[3] = 0
    THEN [exc |-> "ZeroDivisionError", value |-> NoPoint]
    ELSE LET c == hiResC(regs[1], regs[2], regs[3])
         IN  [exc |-> "none",
              value |-> [loResC |-> loResC(regs[1]), hiResC |-> c, hiResF |-> hiResF(c)]]

(***************************************************************************)
(* callback(msg).                                                          *)
(***************************************************************************)
hiByte(m) == (m.arbitration_id \div 256) % 256
loByte(m) == m.arbitration_id % 256

\* the address check with "or" for "and"
AddressedEither(m) == SdoRxChannel = hiByte(m) \/ theNode = loByte(m)

\* check channel and node address
Addressed(m) == SdoRxChannel = hiByte(m) /\ theNode = loByte(m)

\* What the branches of the callback leave: the data bytes of msg, the
\* exception raised ("none": the branch ran to its end), the getDataPoint()
\* calls made and what the last one returned.
Outcome(d, exc, n, p) == [data |-> d, exc |-> exc, reads |-> n, point |-> p]

\* the Celsius key misspelt
ValueKeyTypo(subidx) == IF subidx = 1 THEN "hiresC" ELSE "hiResF"

\* the keys of the two sub-indices exchanged
ValueKeySwapped(subidx) == IF subidx = 1 THEN "hiResF" ELSE "hiResC"

\* the key of the data point served at sub-index 1 and at sub-index 2
ValueKey(subidx) == IF subidx = 1 THEN "hiResC" ELSE "hiResF"

\* the same with getDataPoint() called once to test for the key and once
\* more to fetch the value
SensorValueTwice(d, key, io) ==
    LET d0 == SetItem(d, 0, CmdFourBytes)
        r  == getDataPoint(io)
    IN  IF r.exc # "none" THEN Outcome(d0, r.exc, 1, r.value)
        ELSE IF key \notin DOMAIN r.value THEN Outcome(d0, "KeyError", 1, r.value)
        ELSE Outcome(SetSlice48(d0, pack_f(r.value[key])), "none", 2, r.value)

\* msg.data[0] = 0x43; msg.data[4:8] = struct.pack('<f', getDataPoint()[key])
SensorValue(d, key, io) ==
    LET d0 == SetItem(d, 0, CmdFourBytes)
        r  == getDataPoint(io)
    IN  IF r.exc # "none" THEN Outcome(d0, r.exc, 1, r.value)
        ELSE IF key \notin DOMAIN r.value THEN Outcome(d0, "KeyError", 1, r.value)
        ELSE Outcome(SetSlice48(d0, pack_f(r.value[key])), "none", 1, r.value)

\* msg.data[0] = 0x80; msg.data[4:8] = struct.pack('<L', code)
Abort(d, code) ==
    Outcome(SetSlice48(SetItem(d, 0, CmdAbort), pack_L(code)), "none", 0, NoPoint)

\* the same on a reply assembled in a buffer kept between calls: bytes 5..7
\* are what the previous call left there
SubIndexCountShared(d) ==
    LET d0 == SetItem(d, 0, CmdOneByte)
    IN  IF Len(d0) > 4
        THEN Outcome(IF Len(msg.data) = 8
                     THEN SubSeq(d0, 1, 4) \o <<NumSubIndices>> \o SubSeq(msg.data, 6, 8)
                     ELSE SetItem(d0, 4, NumSubIndices),
                     "none", 0, NoPoint)
        ELSE Outcome(d0, "IndexError", 0, NoPoint)

\* msg.data[0] = 0x4f; msg.data[4] = 0x02
SubIndexCount(d) ==
    LET d0 == SetItem(d, 0, CmdOneByte)
    IN  IF Len(d0) > 4
        THEN Outcome(SetItem(d0, 4, NumSubIndices), "none", 0, NoPoint)
        ELSE Outcome(d0, "IndexError", 0, NoPoint)

\* the branch taken when theIndx == index
TempObject(d, command, subidx, io) ==
    IF SdoUpload # command THEN Abort(d, AbortReadOnly)
    ELSE IF 0 = subidx THEN SubIndexCount(d)
    ELSE IF 1 = subidx \/ 2 = subidx THEN SensorValue(d, ValueKey(subidx), io)
    ELSE Abort(d, AbortNoSubIdx)

\* the four bytes written for index 0x1000: [0]*3 for [0]*4
NullValueShort == <<0, 0, 0>>

\* [0]*4
NullValue == <<0, 0, 0, 0>>

\* the 0x1000 branch without its sub-index check
QMapObjectAnySub(d, command, subidx) ==
    IF SdoUpload # command THEN Abort(d, AbortReadOnly)
    ELSE Outcome(SetSlice48(SetItem(d, 0, CmdFourBytes), NullValue), "none", 0, NoPoint)

\* special case for QMap interface: the branch taken when 0x1000 == index
QMapObject(d, command, subidx) ==
    IF SdoUpload # command THEN Abort(d, AbortReadOnly)
    ELSE IF 0 = subidx
    THEN Outcome(SetSlice48(SetItem(d, 0, CmdFourBytes), NullValue), "none", 0, NoPoint)
    ELSE Abort(d, AbortNoSubIdx)

\* the unknown-index branch with the abort code of the branch above it
UnknownObjectAsSubIdx(d) == Abort(d, AbortNoSubIdx)

\* the branch taken for any other index
UnknownObject(d) == Abort(d, AbortNoObject)

\* the reply sent with the arbitration ID of the request
ReplyIdUnchanged(m) == m.arbitration_id

\* the reply sent on the request channel, 0x600 + theNode
ReplyIdRxBase(m) == 1536 + theNode

\* msg.arbitration_id = 0x580 + theNode
ReplyId(m) == SdoTxBase + theNode

\* The whole callback on Message m: [msg, sent, exc, reads, point].
callback(m, io) ==
    IF ~Addressed(m)
    THEN [msg |-> m, sent |-> <<>>, exc |-> "none", reads |-> 0, point |-> NoPoint]
    ELSE IF Len(Slice04(m.data)) # 4
    THEN [msg |-> m, sent |-> <<>>, exc |-> "struct.error", reads |-> 0,
          point |-> NoPoint]
    ELSE LET u == unpack_BHB(Slice04(m.data))
             o == IF theIndx = u.index
                  THEN TempObject(m.data, u.command, u.subidx, io)
                  ELSE IF QMapIndx = u.index
                  THEN QMapObject(m.data, u.command, u.subidx)
                  ELSE UnknownObject(m.data)
             reply == [arbitration_id |-> ReplyId(m), data |-> o.data]
         IN  IF o.exc # "none"
             THEN [msg |-> [m EXCEPT !.data = o.data], sent |-> <<>>, exc |-> o.exc,
                   reads |-> o.reads, point |-> o.point]
             ELSE [msg |-> reply, sent |-> <<reply>>, exc |-> "none",
                   reads |-> o.reads, point |-> o.point]

(***************************************************************************)
(* The state machine.                                                      *)
(***************************************************************************)
\* After the module has run to the Notifier: the command line is parsed, the
\* thermometer is initialised or simulation mode is entered, no frame has come.
Init ==
    /\ ds1621Addr \in Addrs
    /\ theNode \in Nodes
    /\ theIndx \in Indexes
    /\ i2cBus \in I2cStates
    /\ regs \in (IF i2cBus = "SMBus" THEN Ds1621Regs ELSE {NoRegs})
    /\ rx = NoFrame
    /\ msg = NoFrame
    /\ sent = <<>>
    /\ reads = 0
    /\ point = NoPoint
    /\ raised = "none"
    /\ nRecv = 0
    /\ rxQueue = <<>>
    /\ txLog = <<>>
    /\ nArrived = 0

\* callback with "global theNode" and the reply ID assigned to it
GlobalsNodeRebound == <<ds1621Addr, SdoTxBase + theNode, theIndx, i2cBus>>

\* The module-level names after a run of callback: it binds none of them
\* (its assignments are to msg.data and msg.arbitration_id).
GlobalsAfter == <<ds1621Addr, theNode, theIndx, i2cBus>>

\* One run of callback(f), from its first line to its return or to the
\* exception that ends it.
Handle(f) ==
    /\ \E io \in (IF i2cBus = "SMBus" THEN {"ok", "IOError"} ELSE {"ok"}) :
          \E r \in {callback(f, io)} :
              /\ rx' = f
              /\ msg' = r.msg
              /\ sent' = r.sent
              /\ reads' = r.reads
              /\ point' = r.point
              /\ raised' = r.exc
    /\ nRecv' = nRecv + 1
    /\ ds1621Addr' = GlobalsAfter[1]
    /\ theNode' = GlobalsAfter[2]
    /\ theIndx' = GlobalsAfter[3]
    /\ i2cBus' = GlobalsAfter[4]
    /\ UNCHANGED regs

\* The Notifier delivers frame f and callback(f) runs to its end.
Callback(f) ==
    /\ nRecv < MaxFrames
    /\ Handle(f)
    /\ UNCHANGED bus

\* The thermometer, converting continuously, finishes a conversion.
Convert ==
    /\ i2cBus = "SMBus"
    /\ \E r \in Ds1621Regs \ {regs} : regs' = r
    /\ UNCHANGED <<config, rx, msg, sent, reads, point, raised, nRecv, bus>>

Next == (\E f \in Frames : Callback(f)) \/ Convert

Spec == Init /\ [][Next]_vars

(***************************************************************************)
(* Vocabulary of the properties.  The request is read off rx, the frame as *)
(* it was received, with the arithmetic of the protocol itself.            *)
(***************************************************************************)
Handled == nRecv > 0

\* rx is a frame for this node: ID high byte 0x06, low byte the node number.
RxForUs ==
    /\ Handled
    /\ (rx.arbitration_id \div 256) % 256 = 6
    /\ rx.arbitration_id % 256 = theNode

\* rx is for this node and carries a command, an index and a sub-index.
RxHasRequest == RxForUs /\ Len(rx.data) >= 4

RxCommand == rx.data[1]
RxIndex == rx.data[2] + (256 * rx.data[3])
RxSubIdx == rx.data[4]

RxIsUpload == RxHasRequest /\ RxCommand = 64

\* Exactly one frame was sent for rx; it has 8 data bytes, byte 0 = b0 and
\* bytes 4..7 = payload.
ReplyIs(b0, payload) ==
    /\ raised = "none"
    /\ Len(sent) = 1
    /\ Len(sent[1].data) = 8
    /\ sent[1].data[1] = b0
    /\ SubSeq(sent[1].data, 5, 8) = payload

\* Bytes 1..3 of the reply are bytes 1..3 of the request.
ReplyEchoes ==
    /\ Len(sent) = 1
    /\ Len(sent[1].data) >= 4
    /\ SubSeq(sent[1].data, 2, 4) = SubSeq(rx.data, 2, 4)

\* The abort codes as they appear in bytes 4..7 (little-endian).
Bytes_06010002 == <<2, 0, 1, 6>>
Bytes_06090011 == <<17, 0, 9, 6>>
Bytes_06020000 == <<0, 0, 2, 6>>

(***************************************************************************)
(* C1.  A frame whose ID high byte is not 0x06 or whose low byte is not    *)
(* the node number causes no send and no sensor read and is left as it     *)
(* was received, whatever frames came before it.                           *)
(***************************************************************************)
C1_NotAddressedIgnored ==
    (Handled /\ ~RxForUs) =>
        /\ sent = <<>>
        /\ reads = 0
        /\ msg = rx
        /\ raised = "none"

\* The second frame of a run is an SDO request to another node.
C1_Witness ==
    /\ nRecv = 2
    /\ (rx.arbitration_id \div 256) % 256 = 6
    /\ rx.arbitration_id % 256 # theNode
    /\ Len(rx.data) = 8
    /\ sent = <<>>
    /\ msg = rx

C3_SubIndexCount ==
    (RxIsUpload /\ Len(rx.data) = 8 /\ RxIndex = theIndx /\ RxSubIdx = 0) =>
        ReplyIs(79, <<2, 0, 0, 0>>)

(***************************************************************************)
(* C4.  When the thermometer is unavailable or its read fails, an upload   *)
(* of sub-index 1 or 2 of the temperature object is still answered with    *)
(* exactly one frame and the callback raises nothing.                      *)
(***************************************************************************)
C4_SensorFailureStillAnswered ==
    ( /\ RxIsUpload
      /\ RxIndex = theIndx
      /\ RxSubIdx \in {1, 2}
      /\ (i2cBus = "None" \/ point = NoPoint) ) =>
        (Len(sent) = 1 /\ raised = "none")

(***************************************************************************)
(* C5.  A frame for this node with fewer than 4 data bytes is dropped: no  *)
(* exception is raised and nothing is sent.                                *)
(***************************************************************************)
C5_ShortFrameDropped ==
    (RxForUs /\ Len(rx.data) < 4) => (raised = "none" /\ sent = <<>>)

(***************************************************************************)
(* C6.  An upload of an index that is neither the temperature index nor    *)
(* 0x1000 is answered, for any sub-index, with abort 0x06020000.           *)
(***************************************************************************)
C6_UnknownIndexAbort ==
    (RxIsUpload /\ RxIndex # theIndx /\ RxIndex # 4096) =>
        ReplyIs(128, Bytes_06020000)

\* An upload of 0x0060 sub-index 1 has been refused.
C6_Witness ==
    /\ RxIsUpload
    /\ RxIndex = 96
    /\ RxSubIdx = 1
    /\ ReplyIs(128, Bytes_06020000)

(***************************************************************************)
(* C7.  As claimed: an upload is answered with abort 0x06090011 whenever   *)
(* the index is the temperature index and the sub-index is outside         *)
(* {0, 1, 2}, or the index is 0x1000 and the sub-index is not 0.  Stated   *)
(* for the requests whose handling raises nothing.                         *)
(***************************************************************************)
C7_Original ==
    ( /\ RxIsUpload
      /\ raised = "none"
      /\ \/ (RxIndex = theIndx /\ RxSubIdx \notin {0, 1, 2})
         \/ (RxIndex = 4096 /\ RxSubIdx # 0) ) =>
        ReplyIs(128, Bytes_06090011)

(***************************************************************************)
(* C7 as amended.  An upload is answered with abort 0x06090011 whenever    *)
(* the index is the temperature index and the sub-index is outside         *)
(* {0, 1, 2}, or the index is 0x1000, the temperature index is not 0x1000, *)
(* and the sub-index is not 0.                                             *)
(***************************************************************************)
C7_Amended ==
    ( /\ RxIsUpload
      /\ \/ (RxIndex = theIndx /\ RxSubIdx \notin {0, 1, 2})
         \/ (RxIndex = 4096 /\ theIndx # 4096 /\ RxSubIdx # 0) ) =>
        ReplyIs(128, Bytes_06090011)

\* Sub-index 2 of 0x1000 has been refused by a node whose temperature object
\* is elsewhere.
C7_Witness ==
    /\ RxIsUpload
    /\ RxIndex = 4096
    /\ theIndx # 4096
    /\ RxSubIdx = 2
    /\ ReplyIs(128, Bytes_06090011)

(***************************************************************************)
(* C8.  With a thermometer that returns a reading, an upload of the        *)
(* temperature object is answered with byte 0 = 0x43 and bytes 4..7 the    *)
(* float32 little-endian encoding of the Celsius reading for sub-index 1   *)
(* and of the Fahrenheit reading for sub-index 2.                          *)
(***************************************************************************)
C8_SensorValueServed ==
    ( /\ RxIsUpload
      /\ RxIndex = theIndx
      /\ RxSubIdx \in {1, 2}
      /\ reads = 1
      /\ "hiResC" \in DOMAIN point ) =>
        ReplyIs(67, pack_f(IF RxSubIdx = 1 THEN point.hiResC ELSE point.hiResF))

\* 77.9 F (25.5 C) has been served at sub-index 2 of 0x6000 as cd cc 9b 42.
C8_Witness ==
    /\ RxIsUpload
    /\ RxIndex = theIndx
    /\ RxSubIdx = 2
    /\ regs = <<25, 4, 16>>
    /\ Len(sent) = 1
    /\ sent[1].data = <<67, 0, 96, 2, 205, 204, 155, 66>>

(***************************************************************************)
(* C9.  As claimed: an upload of index 0x1000 sub-index 0 is answered,     *)
(* under every configured temperature index, with byte 0 = 0x43 and bytes  *)
(* 4..7 = [0, 0, 0, 0].  Stated for requests of 8 data bytes.              *)
(***************************************************************************)
C9_Original ==
    (RxIsUpload /\ Len(rx.data) = 8 /\ RxIndex = 4096 /\ RxSubIdx = 0) =>
        ReplyIs(67, <<0, 0, 0, 0>>)

(***************************************************************************)
(* C9 as amended.  An upload of index 0x1000 sub-index 0 is answered,      *)
(* under every configured temperature index other than 0x1000, with byte   *)
(* 0 = 0x43 and bytes 4..7 = [0, 0, 0, 0].                                 *)
(***************************************************************************)
C9_Amended ==
    (RxIsUpload /\ RxIndex = 4096 /\ RxSubIdx = 0 /\ theIndx # 4096) =>
        ReplyIs(67, <<0, 0, 0, 0>>)

\* The null value has replaced a non-zero tail of the request.
C9_Witness ==
    /\ RxIsUpload
    /\ RxIndex = 4096
    /\ RxSubIdx = 0
    /\ theIndx # 4096
    /\ SubSeq(rx.data, 5, Len(rx.data)) = <<170, 187, 204, 221>>
    /\ ReplyIs(67, <<0, 0, 0, 0>>)

(***************************************************************************)
(* C10.  Every frame sent, data or abort, carries in bytes 1..3 the bytes  *)
(* 1..3 of the request, so the index and sub-index decoded from the reply  *)
(* are those decoded from the request.                                     *)
(***************************************************************************)
C10_IndexEchoed ==
    Len(sent) = 1 =>
        /\ ReplyEchoes
        /\ unpack_BHB(Slice04(sent[1].data)).index = RxIndex
        /\ unpack_BHB(Slice04(sent[1].data)).subidx = RxSubIdx

\* A request for index 0x0060 has been answered, and the index decoded from
\* the reply is 0x0060, not 0x6000.
C10_Witness ==
    /\ Len(sent) = 1
    /\ RxIndex = 96
    /\ RxSubIdx = 3
    /\ unpack_BHB(Slice04(sent[1].data)).index = 96
    /\ SubSeq(sent[1].data, 2, 4) = <<96, 0, 3>>

(***************************************************************************)
(* C11.  Every frame sent has arbitration ID 0x580 + the node number,      *)
(* whatever the request's command, index and sub-index and whether the     *)
(* reply is data or an abort.                                              *)
(***************************************************************************)
C11_ReplyId ==
    \A i \in 1..Len(sent) : sent[i].arbitration_id = 1408 + theNode

\* Node 171 has sent an abort with ID 0x62b (0x580 + 0xab).
C11_Witness ==
    /\ theNode = 171
    /\ Len(sent) = 1
    /\ sent[1].arbitration_id = 1579
    /\ sent[1].data[1] = 128

(***************************************************************************)
(* C14.  With a thermometer that returns a reading whenever it is read,    *)
(* every frame for this node with 8 data bytes gets exactly one reply and  *)
(* the callback raises nothing; byte 0 of the reply is 0x4f, 0x43 or 0x80, *)
(* and bytes 4..7 of a 0x80 reply are 0x06010002, 0x06090011 or            *)
(* 0x06020000.                                                             *)
(***************************************************************************)
C14_AlwaysAnswered ==
    ( /\ RxForUs
      /\ Len(rx.data) = 8
      /\ i2cBus = "SMBus"
      /\ (reads > 0 => "hiResC" \in DOMAIN point) ) =>
        /\ raised = "none"
        /\ Len(sent) = 1
        /\ Len(sent[1].data) = 8
        /\ sent[1].data[1] \in {79, 67, 128}
        /\ sent[1].data[1] = 128 =>
              SubSeq(sent[1].data, 5, 8) \in
                  {Bytes_06010002, Bytes_06090011, Bytes_06020000}

\* A download to sub-index 1 of the temperature object, a command for which
\* the thermometer is not read, has been answered with an abort.
C14_Witness ==
    /\ RxForUs
    /\ Len(rx.data) = 8
    /\ i2cBus = "SMBus"
    /\ RxCommand = 35
    /\ RxIndex = theIndx
    /\ RxSubIdx = 1
    /\ reads = 0
    /\ Len(sent) = 1
    /\ sent[1].data[1] = 128

(***************************************************************************)
(* C15.  Every frame sent in answer to a request of 4 to 8 data bytes      *)
(* carries exactly 8 data bytes, in every branch.                          *)
(***************************************************************************)
C15_ReplyHasEightBytes ==
    (RxHasRequest /\ Len(sent) = 1) => Len(sent[1].data) = 8

(***************************************************************************)
(* C16.  getDataPoint() is called exactly once while handling an upload of *)
(* sub-index 1 or 2 of the temperature object sent to this node, and not   *)
(* at all while handling any other frame; a failed read is not retried.    *)
(***************************************************************************)
C16_ReadOnceWhenAsked ==
    Handled =>
        reads = (IF RxIsUpload /\ RxIndex = theIndx /\ RxSubIdx \in {1, 2}
                 THEN 1 ELSE 0)

\* A read has failed with an I/O error and was not tried again.
C16_Witness ==
    /\ RxIsUpload
    /\ RxIndex = theIndx
    /\ RxSubIdx = 2
    /\ raised = "IOError"
    /\ reads = 1

(***************************************************************************)
(* C17.  No step changes the configuration: node number, temperature       *)
(* index, thermometer address and I2C bus keep their startup values        *)
(* through every frame handled.                                            *)
(***************************************************************************)
C17_ConfigFixed == [][config' = config]_vars

\* A node started with -node 171 -indx 0x1000 has answered its second frame.
C17_Witness ==
    /\ nRecv = 2
    /\ theNode = 171
    /\ theIndx = 4096
    /\ Len(sent) = 1
    /\ sent[1].arbitration_id = 1579

(***************************************************************************)
(* Bus loopback.  The CAN interface hands the node's own frames back to    *)
(* the Notifier, for every node number that fits the low byte of the ID.   *)
(***************************************************************************)
NodeIds == 0..255

\* The SDO requests a host sends to node n, on 0x600 + n.
RequestsTo(n) ==
    { [arbitration_id |-> 1536 + n, data |-> FullData(c, i, s, ZeroTail)] :
        c \in Commands, i \in {DefaultIndx, 96}, s \in {0, 1, 3} }

InitLoop ==
    /\ ds1621Addr = DefaultAddr
    /\ theNode \in NodeIds
    /\ theIndx = DefaultIndx
    /\ i2cBus \in I2cStates
    /\ regs = (IF i2cBus = "SMBus" THEN <<25, 4, 16>> ELSE NoRegs)
    /\ rx = NoFrame
    /\ msg = NoFrame
    /\ sent = <<>>
    /\ reads = 0
    /\ point = NoPoint
    /\ raised = "none"
    /\ nRecv = 0
    /\ rxQueue = <<>>
    /\ txLog = <<>>
    /\ nArrived = 0

\* A host's request arrives.
Request == \E f \in RequestsTo(theNode) : Callback(f)

\* The frame just sent comes back from the bus and is delivered to callback.
Loopback == sent # <<>> /\ Callback(sent[1])

NextLoop == Request \/ Loopback

SpecLoop == InitLoop /\ [][NextLoop]_vars

(***************************************************************************)
(* C18.  A frame the node has sent, delivered back to its own callback, is *)
(* not taken as addressed to it, for every node number 0..255: the step    *)
(* that handles it sends nothing, so a reply never triggers a reply.       *)
(***************************************************************************)
C18_NoReplyToOwnReply ==
    [][(sent # <<>> /\ rx' = sent[1]) =>
          (sent' = <<>> /\ reads' = 0 /\ msg' = rx')]_vars

\* Node 128 has been handed back its own reply, sent with ID 0x600, and has
\* stayed silent.
C18_Witness ==
    /\ theNode = 128
    /\ nRecv = 2
    /\ rx.arbitration_id = 1536
    /\ rx.data[1] = 128
    /\ sent = <<>>

(***************************************************************************)
(* Arrival and delivery told apart.  Frames arrive on the bus at any time  *)
(* and wait in the socket; the Notifier, running in the one thread of the  *)
(* asyncio loop, takes the oldest and calls callback, which has no await   *)
(* and so returns before the loop does anything else.                      *)
(***************************************************************************)
\* Traffic on the bus of node 43: uploads of sub-index 0 (with a non-zero
\* tail) and 1 and a download to the temperature object, a request to
\* another node, and a request cut to 3 bytes.
BusFrames ==
    { [arbitration_id |-> 1579, data |-> FullData(SdoUpload, DefaultIndx, 0, <<170, 187, 204, 221>>)],
      [arbitration_id |-> 1579, data |-> FullData(SdoUpload, DefaultIndx, 1, ZeroTail)],
      [arbitration_id |-> 1579, data |-> FullData(35, DefaultIndx, 1, ZeroTail)],
      [arbitration_id |-> 1707, data |-> FullData(SdoUpload, DefaultIndx, 1, ZeroTail)],
      [arbitration_id |-> 1579, data |-> SubSeq(FullData(SdoUpload, DefaultIndx, 1, ZeroTail), 1, 3)] }

InitBus ==
    /\ ds1621Addr = DefaultAddr
    /\ theNode = DefaultNode
    /\ theIndx = DefaultIndx
    /\ i2cBus \in I2cStates
    /\ regs \in (IF i2cBus = "SMBus" THEN Ds1621Regs ELSE {NoRegs})
    /\ rx = NoFrame
    /\ msg = NoFrame
    /\ sent = <<>>
    /\ reads = 0
    /\ point = NoPoint
    /\ raised = "none"
    /\ nRecv = 0
    /\ rxQueue = <<>>
    /\ txLog = <<>>
    /\ nArrived = 0

\* Frame f arrives and is queued by the socket.
Arrive(f) ==
    /\ nArrived < MaxArrivals
    /\ nArrived' = nArrived + 1
    /\ rxQueue' = Append(rxQueue, [seq |-> nArrived + 1, frame |-> f])
    /\ UNCHANGED <<config, regs, rx, msg, sent, reads, point, raised, nRecv, txLog>>

\* the Notifier taking the newest frame first
NextFrameNewest(q) ==
    [entry |-> q[Len(q)], rest |-> SubSeq(q, 1, Len(q) - 1)]

\* The frame the Notifier reads from the bus next, and what stays queued.
NextFrame(q) == [entry |-> Head(q), rest |-> Tail(q)]

\* The Notifier reads a frame and callback runs on it to its end; what it
\* sends is on the bus when it returns.
Deliver ==
    /\ rxQueue # <<>>
    /\ \E n \in {NextFrame(rxQueue)} :
          /\ Handle(n.entry.frame)
          /\ rxQueue' = n.rest
          /\ txLog' = IF sent' = <<>> THEN txLog
                      ELSE Append(txLog, [seq |-> n.entry.seq, req |-> n.entry.frame,
                                          regs |-> regs, reply |-> sent'[1]])
    /\ UNCHANGED nArrived

NextBus == (\E f \in BusFrames : Arrive(f)) \/ Deliver \/ Convert

SpecBus == InitBus /\ [][NextBus]_vars

(***************************************************************************)
(* C12.  The responder keeps nothing between frames: with the same         *)
(* configuration and thermometer registers, two replies to the same        *)
(* request frame are byte-identical, whatever was handled before each and  *)
(* between them.                                                           *)
(***************************************************************************)
C12_SameRequestSameReply ==
    \A i, j \in 1..Len(txLog) :
        (txLog[i].req = txLog[j].req /\ txLog[i].regs = txLog[j].regs) =>
            txLog[i].reply = txLog[j].reply

\* The sub-index count was asked for, then a download was refused, then the
\* count was asked for again and answered as before.
C12_Witness ==
    /\ Len(txLog) = 3
    /\ txLog[1].req = txLog[3].req
    /\ txLog[1].req.data[4] = 0
    /\ txLog[2].reply.data[1] = 128
    /\ txLog[1].reply = txLog[3].reply

(***************************************************************************)
(* C13.  Frames are handled one at a time and to the end: when callback    *)
(* has returned, its reply is the newest frame on the bus; every frame     *)
(* answered so far arrived before every frame still waiting; and the       *)
(* replies are on the bus in the order in which their requests arrived.    *)
(***************************************************************************)
C13_RepliesInArrivalOrder ==
    /\ \A i, j \in 1..Len(txLog) : i < j => txLog[i].seq < txLog[j].seq
    /\ \A i \in 1..Len(txLog) : \A k \in 1..Len(rxQueue) :
          txLog[i].seq < rxQueue[k].seq
    /\ sent # <<>> =>
          /\ txLog # <<>>
          /\ txLog[Len(txLog)].reply = sent[1]
          /\ txLog[Len(txLog)].req = rx

\* Two more frames arrived before the second was looked at; the first has
\* been answered and both still wait.
C13_Witness ==
    /\ Len(txLog) = 1
    /\ txLog[1].seq = 1
    /\ Len(rxQueue) = 2
    /\ rxQueue[1].seq = 2
    /\ sent # <<>>

==========================================================================
